---- MODULE Spec2Model ----
(***************************************************************************)
(* State-machine model of the variable-source light-curve engine           *)
(* (class Variability of src/Variability.py).                              *)
(*                                                                         *)
(* Floating-point quantities are modelled in fixed point: a value v is     *)
(* held as the integer v * SC.  Times (MJD, t0, periods, template axes)    *)
(* are whole days.  numpy arrays are modelled as sequences.                *)
(***************************************************************************)
EXTENDS Integers, Sequences, FiniteSets, TLC

(***************************************************************************)
(* Bounds of the model.                                                    *)
(***************************************************************************)
\* longest observation-epoch array that is enumerated
MaxEpochs == 2

(***************************************************************************)
(* Fixed-point scale and the numeric stand-ins.                            *)
(***************************************************************************)
SC == 10 * 100

Bands == {"u", "g", "r", "i", "z", "y"}

\* column of a band in the 7-column template file (lc[1] .. lc[6])
BandCol(b) ==
    CASE b = "u" -> 1 [] b = "g" -> 2 [] b = "r" -> 3
      [] b = "i" -> 4 [] b = "z" -> 5 [] b = "y" -> 6

RECURSIVE SeqMin(_)
SeqMin(s) ==
    IF Len(s) = 1 THEN s[1]
    ELSE LET m == SeqMin(Tail(s)) IN IF s[1] < m THEN s[1] ELSE m

RECURSIVE SeqMax(_)
SeqMax(s) ==
    IF Len(s) = 1 THEN s[1]
    ELSE LET m == SeqMax(Tail(s)) IN IF s[1] > m THEN s[1] ELSE m

\* math.ceil(a/b) for b > 0
CeilDiv(a, b) == -((-a) \div b)

\* integer square root: floor(sqrt(n)) for n >= 0
RECURSIVE ISqrtFrom(_, _)
ISqrtFrom(n, r) == IF (r + 1) * (r + 1) > n THEN r ELSE ISqrtFrom(n, r + 1)
RECURSIVE ISqrt(_)
ISqrt(n) ==
    IF n < 4 THEN ISqrtFrom(n, 0)
    ELSE LET h == 2 * ISqrt(n \div 4) IN ISqrtFrom(n, h)

\* sqrt of a fixed-point value, fixed-point result
FSqrt(v) == ISqrt(v * SC)

\* natural logarithm of a positive fixed-point value, fixed-point result:
\* halve or double the argument into [1/2, 2], adding or taking off ln(2),
\* then ln(x) = 2*atanh(z), z = (x-1)/(x+1), atanh(z) ~ z + z^3/3 + z^5/5
RECURSIVE FLn(_)
FLn(v) ==
    IF v > 2 * SC THEN FLn(v \div 2) + (693 * SC) \div 1000
    ELSE IF 2 * v < SC THEN FLn(2 * v) - (693 * SC) \div 1000
    ELSE LET z  == ((v - SC) * SC) \div (v + SC)
             z3 == (z * z * z) \div (SC * SC)
             z5 == (z3 * z * z) \div (SC * SC)
         IN  2 * (z + z3 \div 3 + z5 \div 5)

\* numpy.log10 of a positive fixed-point value: ln(v)/ln(10), ln(10) = 2.303
FLog10(v) == (FLn(v) * 1000) \div 2303

\* the values standing for IEEE nan and inf in an output array
NaN == 0 - 10 ^ 9
Inf == 10 ^ 9

(***************************************************************************)
(* File names.  A name is a sequence of pieces whose last piece stands for *)
(* the last five characters of the string.                                 *)
(***************************************************************************)
FileA   == <<"lc_a", "1.dat">>
FileM   == <<"mflare/", "lc_m", "1.dat">>
FileNo  == <<"lc_none", "1.dat">>
\* an lcfilename as a flare request carries it, before applyMflare rewrites it
FlareM  == <<"lc_m", "7.dat">>

\* the files that exist under variabilityDataDir, with their tabulated data:
\* axis (lc[0], whole time units) and the u column (fixed point); the other
\* band columns are the u column shifted by a per-band amount
DiskFiles == {FileA, FileM}

TemplateAxis(f) == IF f = FileA THEN <<0, 1, 2, 3>> ELSE <<1, 2, 3, 4>>

TemplateBase(f) ==
    IF f = FileA THEN <<1050, 1200, 900, 1100>> ELSE <<1100, 1500, 1300, 1050>>

\* column c (1..6) of the table read by numpy.loadtxt(..., unpack=True)
TemplateCol(f, c) == [i \in 1..Len(TemplateBase(f)) |-> TemplateBase(f)[i] + 10 * (c - 1)]

RequestFiles == {FileA, FileM, FileNo}

(***************************************************************************)
(* Interpolators.  An interpolator is a record                             *)
(*   [kind |-> "interp1d" | "IUS", x |-> knots, y |-> values];             *)
(* scipy.interpolate.interp1d is piecewise linear and refuses arguments    *)
(* outside [x[1], x[n]] (bounds_error); InterpolatedUnivariateSpline goes  *)
(* through every knot and extrapolates outside, modelled by the line       *)
(* through the nearest two knots.                                          *)
(***************************************************************************)
\* index i of the segment [x[i], x[i+1]] used for argument p
Segment(x, p) ==
    LET n == Len(x)
        inside == {i \in 1..(n - 1) : x[i] <= p /\ p <= x[i + 1]}
    IN  IF p < x[1] THEN 1
        ELSE IF p > x[n] THEN n - 1
        ELSE CHOOSE i \in inside : \A j \in inside : i <= j

InterpValue(sp, p) ==
    LET i == Segment(sp.x, p)
    IN  sp.y[i] + ((sp.y[i + 1] - sp.y[i]) * (p - sp.x[i])) \div (sp.x[i + 1] - sp.x[i])

\* does the call sp(p) raise ValueError
InterpRaises(sp, p) ==
    sp.kind = "interp1d" /\ (p < sp.x[1] \/ p > sp.x[Len(sp.x)])

MakeInterp(kind, xs, ys) == [kind |-> kind, x |-> xs, y |-> ys]

(***************************************************************************)
(* The state of one engine instance and of its environment.                *)
(***************************************************************************)
VARIABLES
    catShareData,            \* environment: is CAT_SHARE_DATA set
    expmjd,                  \* obs_metadata.metadata['Opsim_expmjd'][0]
    rngState,                \* state of the global numpy.random generator
    variabilityInitialized,  \* Variability.variabilityInitialized
    variabilityMethods,      \* keys of self.variabilityMethods
    variabilityLcCache,      \* self.variabilityLcCache: file name -> entry
    variabilityCache,        \* self.variabilityCache
    variabilityDataDir,      \* does the attribute self.variabilityDataDir exist
    lastCall,                \* the operation performed last and its arguments
    lastResult,              \* what that operation returned or raised
    initRuns,                \* how often initializeVariability has run (0, 1, many)
    completedStd,            \* files a periodic request has returned for since initialization
    completedBH,             \* files applyBHMicrolens has returned for since initialization
    agnMemo,                 \* an earlier applyAgn evaluation kept for comparison
    foldPhase,               \* the period and the phases the last periodic evaluation folded with
    foldMemo,                \* an earlier periodic evaluation kept for comparison
    workers,                 \* concurrent evaluations: each worker's position and locals
    bandPassKey,             \* PhotometryBase.bandPassKey
    bandPasses,              \* PhotometryBase.bandPasses: name -> the file it was read from
    phiArray,                \* PhotometryBase.phiArray
    galCatalog,              \* the catalog handed to selectGalaxySED.matchToObserved
    sedMatches               \* what matchToObserved returned

vars == <<catShareData, expmjd, rngState, variabilityInitialized, variabilityMethods,
          variabilityLcCache, variabilityCache, variabilityDataDir, lastCall,
          lastResult, initRuns, completedStd, completedBH, agnMemo, foldPhase, foldMemo,
          workers, bandPassKey, bandPasses, phiArray, galCatalog, sedMatches>>

\* the evaluators initializeVariability registers (lines 22-39)
Registry == {"applyMflare", "applyRRly", "applyCepheid", "applyEb", "applyMicrolens",
             "applyAgn", "applyMicrolensing", "applyAmcvn", "applyBHMicrolens"}

\* results of an operation
NoMags == [b \in {} |-> <<>>]
Ok(mags) == [status |-> "ok", err |-> "", mags |-> mags]
Raised(e) == [status |-> "error", err |-> e, mags |-> NoMags]
NoResult == [status |-> "none", err |-> "", mags |-> NoMags]

\* the mjd values and the epoch arrays the host may supply
MjdValues == {401, 1502}

RECURSIVE SeqsUpTo(_, _)
SeqsUpTo(S, n) ==
    IF n = 0 THEN {<<>>}
    ELSE LET shorter == SeqsUpTo(S, n - 1)
         IN  shorter \cup {Append(s, v) : s \in {t \in shorter : Len(t) = n - 1}, v \in S}

EpochArrays == SeqsUpTo(MjdValues, MaxEpochs) \ {<<>>}

(***************************************************************************)
(* applyStdPeriodic (lines 63-109).  An evaluator is an operator that      *)
(* yields the effect of one call in the current state:                     *)
(*   res    what the call returns or raises,                               *)
(*   cache  self.variabilityLcCache afterwards,                            *)
(*   loaded the files numpy.loadtxt read,                                  *)
(*   rng    the state of the random generator afterwards.                  *)
(* self holds the instance attributes the evaluators read:                 *)
(* variabilityLcCache, variabilityCache and variabilityDataDir.            *)
(***************************************************************************)
Effect(res, cache, loaded, rng) ==
    [res |-> res, cache |-> cache, loaded |-> loaded, rng |-> rng]

\* epoch = expmjd - toff
EpochsOf(toff) == [i \in 1..Len(expmjd) |-> expmjd[i] - toff]

\* epoch//period for a positive period: the quotient rounded down
FloorDivide(epoch, period) == epoch \div period

\* PhaseOf with the quotient rounded towards zero instead of down
PhaseOf_trunc(epoch, period) ==
    (epoch * SC) \div period
      - (IF epoch < 0 THEN -((-epoch) \div period) ELSE epoch \div period) * SC

\* PhaseOf without the subtraction that wraps the quotient around
PhaseOf_unwrapped(epoch, period) == (epoch * SC) \div period

\* line 105: phase = epoch/period - epoch//period, in fixed point
PhaseOf(epoch, period) ==
    (epoch * SC) \div period - FloorDivide(epoch, period) * SC

\* lines 76-80: the period of a freshly read template
InferPeriod(f, hasPeriod, inPeriod) ==
    LET ax == TemplateAxis(f)
        dt == ax[2] - ax[1]
    IN  IF ~hasPeriod THEN ax[Len(ax)] + dt ELSE inPeriod

\* lines 82-83: the axis the interpolators are built on, in fixed point
BuildAxis(f, period, inDays) ==
    LET ax == TemplateAxis(f)
    IN  IF inDays THEN [i \in 1..Len(ax) |-> (ax[i] * SC) \div period]
        ELSE [i \in 1..Len(ax) |-> ax[i] * SC]

\* lines 85-101: one interpolator per band, all of one kind and over one axis;
\* interpFactory None means interp1d.  The six are held as the kind, the axis
\* and the file whose columns they interpolate.
BuildSplines(f, period, inDays, factory) ==
    [kind |-> factory, x |-> BuildAxis(f, period, inDays), file |-> f]

\* splines[b]
SplineOf(splines, b) ==
    MakeInterp(splines.kind, splines.x, TemplateCol(splines.file, BandCol(b)))

\* StoreInCache that keeps nothing but the entry it writes
StoreInCache_evict(self, cache, filename, splines, period) ==
    IF self.variabilityCache
    THEN [g \in {filename} |-> [splines |-> splines, period |-> period]]
    ELSE cache

\* StoreInCache that does not look at self.variabilityCache
StoreInCache_always(self, cache, filename, splines, period) ==
    [g \in (DOMAIN cache) \cup {filename} |->
        IF g = filename THEN [splines |-> splines, period |-> period] ELSE cache[g]]

\* lines 93-94 and 102-103
StoreInCache(self, cache, filename, splines, period) ==
    IF self.variabilityCache
    THEN [g \in (DOMAIN cache) \cup {filename} |->
             IF g = filename THEN [splines |-> splines, period |-> period] ELSE cache[g]]
    ELSE cache

\* lines 105-109, given the interpolators and the period in use
FoldAndEvaluate(splines, period, toff) ==
    LET epoch == EpochsOf(toff)
        phase == [i \in 1..Len(epoch) |-> PhaseOf(epoch[i], period)]
    IN  IF \E i \in 1..Len(phase), b \in Bands : InterpRaises(SplineOf(splines, b), phase[i])
        THEN Raised("ValueError")
        ELSE Ok([b \in Bands |->
                   [i \in 1..Len(phase) |-> InterpValue(SplineOf(splines, b), phase[i])]])

\* CacheHit that never finds the entry
CacheHit_never(self, filename) == FALSE

\* line 71: self.variabilityLcCache.has_key(filename)
CacheHit(self, filename) == filename \in DOMAIN self.variabilityLcCache

\* applyStdPeriodic that answers a file it cannot read with zero offsets
applyStdPeriodic_default(self, filename, toff, hasPeriod, inPeriod, inDays, factory) ==
    IF CacheHit(self, filename)
    THEN Effect(FoldAndEvaluate(self.variabilityLcCache[filename].splines,
                                self.variabilityLcCache[filename].period, toff),
                self.variabilityLcCache, {}, rngState)
    ELSE IF ~self.variabilityDataDir
    THEN Effect(Raised("AttributeError"), self.variabilityLcCache, {}, rngState)
    ELSE IF filename \notin DiskFiles
    THEN Effect(Ok([b \in Bands |-> [i \in 1..Len(expmjd) |-> 0]]),
                self.variabilityLcCache, {}, rngState)
    ELSE LET period  == InferPeriod(filename, hasPeriod, inPeriod)
             splines == BuildSplines(filename, period, inDays, factory)
         IN  Effect(FoldAndEvaluate(splines, period, toff),
                    StoreInCache(self, self.variabilityLcCache, filename, splines, period),
                    {filename}, rngState)

applyStdPeriodic(self, filename, toff, hasPeriod, inPeriod, inDays, factory) ==
    IF CacheHit(self, filename)
    THEN Effect(FoldAndEvaluate(self.variabilityLcCache[filename].splines,
                                self.variabilityLcCache[filename].period, toff),
                self.variabilityLcCache, {}, rngState)
    ELSE IF ~self.variabilityDataDir
    THEN Effect(Raised("AttributeError"), self.variabilityLcCache, {}, rngState)
    ELSE IF filename \notin DiskFiles
    THEN Effect(Raised("IOError"), self.variabilityLcCache, {}, rngState)
    ELSE LET period  == InferPeriod(filename, hasPeriod, inPeriod)
             splines == BuildSplines(filename, period, inDays, factory)
         IN  Effect(FoldAndEvaluate(splines, period, toff),
                    StoreInCache(self, self.variabilityLcCache, filename, splines, period),
                    {filename}, rngState)

\* line 113: "mflare/" + lcfilename[:-5] + "1.dat"
MflareName(lcfilename) ==
    <<"mflare/">> \o SubSeq(lcfilename, 1, Len(lcfilename) - 1) \o <<"1.dat">>

NegateAll(res) ==
    IF res.status = "ok"
    THEN Ok([b \in Bands |-> [i \in 1..Len(res.mags[b]) |-> -res.mags[b][i]]])
    ELSE res

\* lines 111-118
applyMflare(self, params) ==
    LET e == applyStdPeriodic(self, MflareName(params.lcfilename), params.t0,
                              TRUE, params.length, TRUE, "interp1d")
    IN  [e EXCEPT !.res = NegateAll(e.res)]

\* lines 120-124
applyRRly(self, params) ==
    applyStdPeriodic(self, params.filename, params.tStartMjd, FALSE, 0, TRUE, "IUS")

\* lines 126-130
applyCepheid(self, params) ==
    applyStdPeriodic(self, params.lcfile, params.t0, TRUE, params.period, FALSE, "IUS")

\* line 137: -2.5*numpy.log10(x); numpy.log10 gives nan below zero and -inf at zero
MagOfRatio(v) ==
    IF v < 0 THEN NaN ELSE IF v = 0 THEN Inf ELSE (-25 * FLog10(v)) \div 10

\* applyEb that returns the flux ratios as they come
applyEb_unconverted(self, params) ==
    applyStdPeriodic(self, params.lcfile, params.t0, FALSE, 0, TRUE, "IUS")

\* lines 132-138
applyEb(self, params) ==
    LET e == applyStdPeriodic(self, params.lcfile, params.t0, FALSE, 0, TRUE, "IUS")
    IN  IF e.res.status = "ok"
        THEN [e EXCEPT !.res = Ok([b \in Bands |->
                 [i \in 1..Len(e.res.mags[b]) |-> MagOfRatio(e.res.mags[b][i])]])]
        ELSE e

(***************************************************************************)
(* applyMicrolens (lines 140-153) and applyMicrolensing (lines 193-206).   *)
(* umin is in fixed point and positive, that is in days.                   *)
(***************************************************************************)
\* a/b for b > 0 in fixed point; the rounding does not depend on the sign of a
FQuotient(a, b) == IF a < 0 THEN -(((-a) * SC) \div b) ELSE (a * SC) \div b

\* USquared with the epochs taken one day off the zero point
USquared_shifted(ep, umin, that) ==
    LET q == FQuotient(2 * (ep + 1), that)
    IN  (umin * umin + q * q) \div SC

\* lines 144 and 196: u**2 for one epoch, in fixed point
USquared(ep, umin, that) ==
    LET q == FQuotient(2 * ep, that)
    IN  (umin * umin + q * q) \div SC

\* line 145: (u**2+2.0)/(u*numpy.sqrt(u**2+4.0))
MicrolensMagnification(u2) ==
    ((u2 + 2 * SC) * SC) \div ((FSqrt(u2) * FSqrt(u2 + 4 * SC)) \div SC)

\* line 198: (u + 2.0) / (u * numpy.sqrt(u**2 + 4.0))
MicrolensingMagnification(u2) ==
    ((FSqrt(u2) + 2 * SC) * SC) \div ((FSqrt(u2) * FSqrt(u2 + 4 * SC)) \div SC)

applyMicrolens(self, params) ==
    LET epochs == EpochsOf(params.t0)
        dmag == [i \in 1..Len(epochs) |->
                   MagOfRatio(MicrolensMagnification(USquared(epochs[i], params.umin, params.that)))]
    IN  Effect(Ok([b \in Bands |-> dmag]), self.variabilityLcCache, {}, rngState)

applyMicrolensing(self, params) ==
    LET epochs == EpochsOf(params.t0)
        dmag == [i \in 1..Len(epochs) |->
                   MagOfRatio(MicrolensingMagnification(USquared(epochs[i], params.umin, params.that)))]
    IN  Effect(Ok([b \in Bands |-> dmag]), self.variabilityLcCache, {}, rngState)

(***************************************************************************)
(* applyAgn (lines 156-191).  numpy.random is modelled by a small linear   *)
(* congruential generator: seeding fixes its state from the seed alone,    *)
(* each draw advances the state and yields one of five deviates.           *)
(***************************************************************************)
RngMod == 16

\* numpy.random.seed(seed=seed), line 178
RngSeed(seed) == (7 * seed + 1) % RngMod
RngNext(st) == (5 * st + 3) % RngMod
\* the deviate read off a generator state, in fixed point
RngDeviate(st) == ((st % 5) - 2) * (SC \div 2)

\* numpy.random.normal(0., 1., nbins), line 179: the states after 1..nbins draws
RECURSIVE RngStates_(_, _)
RngStates_(st, n) == IF n = 0 THEN <<>> ELSE <<RngNext(st)>> \o RngStates_(RngNext(st), n - 1)
DrawNormal(st, n) == [i \in 1..n |-> RngDeviate(RngStates_(st, n)[i])]
RngAfter(st, n) == IF n = 0 THEN st ELSE RngStates_(st, n)[n]

\* lines 181-186: the walk dx[0..nbins] of one band (index 1 is dx[0])
RECURSIVE AgnWalk(_, _, _, _, _)
AgnWalk(sf, es, dt, sdt, n) ==
    IF n = 0 THEN <<0>>
    ELSE LET dx   == AgnWalk(sf, es, dt, sdt, n - 1)
             prev == dx[n]
         IN  Append(dx, prev - (prev * dt) \div SC + (((sf * es[n]) \div SC) * sdt) \div SC)

\* AgnBeforeT0 that tests the largest epoch instead of the smallest
AgnBeforeT0_max(epochs) == SeqMax(epochs) < 0

\* line 170: epochs.min() < 0
AgnBeforeT0(epochs) == SeqMin(epochs) < 0

\* lines 174-175
AgnBins(endepoch, tau) == CeilDiv(endepoch * 100, tau)

\* applyAgnFrom that draws the deviates anew inside the loop over the bands
applyAgnFrom_perBand(self, params, seeded) ==
    LET epochs   == EpochsOf(params.t0_mjd)
        endepoch == SeqMax(epochs)
        nbins    == AgnBins(endepoch, params.agn_tau)
        dt       == (endepoch * SC) \div (nbins * params.agn_tau)
        sdt      == FSqrt(dt)
        es(b)    == DrawNormal(RngAfter(seeded, (BandCol(b) - 1) * nbins), nbins)
        grid     == [i \in 1..(nbins + 1) |-> (i - 1) * endepoch]
        walk(b)  == MakeInterp("interp1d", grid, AgnWalk(params.sfint[b], es(b), dt, sdt, nbins))
    IN  IF AgnBeforeT0(epochs)
        THEN Effect(Raised("InvalidParameters"), self.variabilityLcCache, {}, rngState)
        ELSE IF nbins = 0
        THEN Effect(Raised("ValueError"), self.variabilityLcCache, {}, seeded)
        ELSE Effect(Ok([b \in Bands |->
                        [i \in 1..Len(epochs) |-> InterpValue(walk(b), epochs[i] * nbins)]]),
                    self.variabilityLcCache, {}, RngAfter(seeded, 6 * nbins))

applyAgnFrom(self, params, seeded) ==
    LET epochs   == EpochsOf(params.t0_mjd)
        endepoch == SeqMax(epochs)
        nbins    == AgnBins(endepoch, params.agn_tau)
        dt       == (endepoch * SC) \div (nbins * params.agn_tau)
        sdt      == FSqrt(dt)
        es       == DrawNormal(seeded, nbins)
        \* numpy.linspace(0, endepoch, nbins+1), scaled by nbins to stay integral
        grid     == [i \in 1..(nbins + 1) |-> (i - 1) * endepoch]
        walk(b)  == MakeInterp("interp1d", grid, AgnWalk(params.sfint[b], es, dt, sdt, nbins))
    IN  IF AgnBeforeT0(epochs)
        THEN Effect(Raised("InvalidParameters"), self.variabilityLcCache, {}, rngState)
        ELSE IF nbins = 0
        \* dt is nan, the grid has one point and interp1d refuses it
        THEN Effect(Raised("ValueError"), self.variabilityLcCache, {}, seeded)
        ELSE Effect(Ok([b \in Bands |->
                        [i \in 1..Len(epochs) |-> InterpValue(walk(b), epochs[i] * nbins)]]),
                    self.variabilityLcCache, {}, RngAfter(seeded, nbins))

\* applyAgn without line 178: the draws continue from the generator's state
applyAgn_unseeded(self, params) == applyAgnFrom(self, params, rngState)

applyAgn(self, params) == applyAgnFrom(self, params, RngSeed(params.seed))

(***************************************************************************)
(* applyBHMicrolens (lines 244-274).                                       *)
(***************************************************************************)
\* line 253: lc[0] *= 365.
BHAges(f) == [i \in 1..Len(TemplateAxis(f)) |-> TemplateAxis(f)[i] * 365]

\* line 260: InterpolatedUnivariateSpline(lc[0], lc[1])
BHSpline(f) == MakeInterp("IUS", BHAges(f), TemplateCol(f, 1))

\* BHMagnification that only tests ep > maxage
BHMagnification_noMin(f, ep) ==
    LET ages   == BHAges(f)
        maxage == ages[Len(ages)]
    IN  IF ep > maxage THEN SC ELSE InterpValue(BHSpline(f), ep)

\* lines 266-270: the magnification of one epoch, in fixed point
BHMagnification(f, ep) ==
    LET ages   == BHAges(f)
        minage == ages[1]
        maxage == ages[Len(ages)]
    IN  IF ep < minage \/ ep > maxage THEN SC ELSE InterpValue(BHSpline(f), ep)

\* line 273: -2.5*numpy.log(moff), the natural logarithm
BHMagOff(m) ==
    IF m < 0 THEN NaN ELSE IF m = 0 THEN Inf ELSE (-25 * FLn(m)) \div 10

\* applyBHMicrolens that appends nothing for an epoch outside the template
applyBHMicrolens_skip(self, params) ==
    LET f      == params.filename
        inside(ep) == ~(ep < BHAges(f)[1] \/ ep > BHAges(f)[Len(BHAges(f))])
        kept   == SelectSeq(EpochsOf(params.t0), inside)
        moff   == [i \in 1..Len(kept) |-> BHMagnification(f, kept[i])]
    IN  IF ~self.variabilityDataDir
        THEN Effect(Raised("AttributeError"), self.variabilityLcCache, {}, rngState)
        ELSE IF f \notin DiskFiles
        THEN Effect(Raised("IOError"), self.variabilityLcCache, {}, rngState)
        ELSE Effect(Ok([b \in Bands |-> [i \in 1..Len(moff) |-> BHMagOff(moff[i])]]),
                    self.variabilityLcCache, {f}, rngState)

applyBHMicrolens(self, params) ==
    LET epoch == EpochsOf(params.t0)
        f     == params.filename
        moff  == [i \in 1..Len(epoch) |-> BHMagnification(f, epoch[i])]
    IN  IF ~self.variabilityDataDir
        THEN Effect(Raised("AttributeError"), self.variabilityLcCache, {}, rngState)
        ELSE IF f \notin DiskFiles
        THEN Effect(Raised("IOError"), self.variabilityLcCache, {}, rngState)
        ELSE Effect(Ok([b \in Bands |-> [i \in 1..Len(moff) |-> BHMagOff(moff[i])]]),
                    self.variabilityLcCache, {f}, rngState)

(***************************************************************************)
(* applyAmcvn (lines 208-242).  amplitude, amp_burst and                   *)
(* color_excess_during_burst are in fixed point; t0, period, burst_freq    *)
(* and burst_scale are in days.                                            *)
(***************************************************************************)
\* numpy.cos of a fixed-point angle in radians
FCos(x) ==
    LET twoPi == 6283
        r  == x % twoPi
        a  == IF r > twoPi \div 2 THEN twoPi - r ELSE r
        fl == a > twoPi \div 4
        t  == IF fl THEN twoPi \div 2 - a ELSE a
        t2 == (t * t) \div SC
        t4 == (t2 * t2) \div SC
        t6 == (t4 * t2) \div SC
        c  == SC - t2 \div 2 + t4 \div 24 - t6 \div 720
    IN  IF fl THEN -c ELSE c

\* numpy.exp of a fixed-point value y <= 0
RECURSIVE FExp(_)
FExp(y) ==
    IF y < -(SC \div 4)
    THEN LET h == FExp(-((-y) \div 2)) IN (h * h) \div SC
    ELSE SC + y + (y * y) \div (2 * SC)

\* line 213: amplitude*cos((epochs - t0)/period)
AmcvnBase(params) ==
    [i \in 1..Len(expmjd) |->
        (params.amplitude * FCos(((expmjd[i] - params.t0) * SC) \div params.period)) \div SC]

\* line 225: numpy.ceil(maxyears*365.25/burst_freq), the number of pulses
AmcvnPulses(burst_freq) == CeilDiv(36525, 10 * burst_freq)

\* the denominator that makes every pulse onset integral
AmcvnScale(burst_freq) ==
    IF AmcvnPulses(burst_freq) > 1 THEN 4 * (AmcvnPulses(burst_freq) - 1) ELSE 4

\* lines 223-225: onset j (0-based) of numpy.linspace(t0 + burst_freq,
\* t0 + maxyears*365.25, n), multiplied by AmcvnScale
AmcvnOnset(params, j) ==
    AmcvnScale(params.burst_freq) * (params.t0 + params.burst_freq)
      + j * (14610 - 4 * params.burst_freq)

\* lines 226-227: what pulse j subtracts from adds at epoch ep
AmcvnPulse(params, j, ep) ==
    LET D == AmcvnScale(params.burst_freq)
        d == D * ep - AmcvnOnset(params, j)
        y == SC - (d * SC) \div (D * params.burst_scale)
    IN  \* tmp < 1.0 exactly when ep - o > burst_scale
        IF d > D * params.burst_scale THEN (params.amp_burst * FExp(y)) \div SC ELSE 0

RECURSIVE AmcvnSum(_, _, _)
AmcvnSum(params, n, ep) ==
    IF n = 0 THEN 0 ELSE AmcvnSum(params, n - 1, ep) + AmcvnPulse(params, n - 1, ep)

\* lines 222-227
AmcvnAdds(params) ==
    [i \in 1..Len(expmjd) |-> -AmcvnSum(params, AmcvnPulses(params.burst_freq), expmjd[i])]

\* weight*color_excess_during_burst*adds/min(adds) for one element, weight in halves
AmcvnExcess(params, halves, a, m) ==
    IF m = 0 THEN NaN
    ELSE (halves * params.color_excess_during_burst * (((-a) * SC) \div (-m))) \div (2 * SC)

AddNaN(a, b) == IF a = NaN \/ b = NaN THEN NaN ELSE a + b

\* one in-place statement "xLc += adds + w*color_excess*adds/min(adds)" of
\* lines 229-234 applied to the array arr; halves = 0 for the i, z and y lines
AmcvnInPlace(params, arr, adds, halves) ==
    [i \in 1..Len(arr) |->
        IF halves = 0 THEN AddNaN(arr[i], adds[i])
        ELSE AddNaN(arr[i], AddNaN(adds[i], AmcvnExcess(params, halves, adds[i], SeqMin(adds))))]

\* lines 214-218 bind gLc .. yLc to the very array uLc names, so the six
\* in-place statements of lines 229-234 all update that one array
RECURSIVE AmcvnShared(_, _, _, _)
AmcvnShared(params, arr, adds, weights) ==
    IF weights = <<>> THEN arr
    ELSE AmcvnShared(params, AmcvnInPlace(params, arr, adds, Head(weights)), adds, Tail(weights))

applyAmcvn(self, params) ==
    LET base   == AmcvnBase(params)
        shared == IF params.does_burst
                  THEN AmcvnShared(params, base, AmcvnAdds(params), <<4, 2, 1, 0, 0, 0>>)
                  ELSE base
    IN  Effect(Ok([b \in Bands |-> shared]), self.variabilityLcCache, {}, rngState)

(***************************************************************************)
(* The requests the host sends.                                            *)
(***************************************************************************)
T0s == {401, 1502}

PeriodicT0s == {401}

MflareParams ==
    [lcfilename : {FlareM, FileNo}, t0 : PeriodicT0s, length : {3, 4}]
RRlyParams == [filename : RequestFiles, tStartMjd : PeriodicT0s]
CepheidParams == [lcfile : RequestFiles, t0 : PeriodicT0s, period : {4}]
EbParams == [lcfile : RequestFiles, t0 : PeriodicT0s]
MicrolensParams == [t0 : PeriodicT0s, umin : {500}, that : {400}]
SfintMixed == [b \in Bands |-> IF b \in {"u", "g"} THEN 2000 ELSE IF b = "z" THEN 0 ELSE 500]
AgnParams ==
    [t0_mjd : T0s, seed : {1}, sfint : {SfintMixed}, agn_tau : {50000}]
AgnParamsWide ==
    [t0_mjd : T0s, seed : {1, 2}, sfint : {SfintMixed}, agn_tau : {50000}]
AmcvnParams ==
    [amplitude : {200}, t0 : PeriodicT0s, period : {100}, does_burst : BOOLEAN,
     burst_freq : {1000}, burst_scale : {50}, amp_burst : {3000},
     color_excess_during_burst : {100}]
BHParams == [filename : RequestFiles, t0 : T0s]

\* names that are not keys of self.variabilityMethods
UnknownMethods == {"applyStdPeriodic", "applySupernova"}

ParamsOf(method) ==
    CASE method = "applyMflare" -> MflareParams
      [] method = "applyRRly" -> RRlyParams
      [] method = "applyCepheid" -> CepheidParams
      [] method = "applyEb" -> EbParams
      [] method = "applyMicrolens" -> MicrolensParams
      [] method = "applyMicrolensing" -> MicrolensParams
      [] method = "applyAgn" -> AgnParams
      [] method = "applyAmcvn" -> AmcvnParams
      [] method = "applyBHMicrolens" -> BHParams
      [] OTHER -> [t0 : PeriodicT0s]

\* the evaluators that go through applyStdPeriodic
PeriodicMethods == {"applyMflare", "applyRRly", "applyCepheid", "applyEb"}

\* the template file a request names (after applyMflare's rewriting)
FileOf(method, params) ==
    CASE method = "applyMflare" -> MflareName(params.lcfilename)
      [] method = "applyRRly" -> params.filename
      [] method \in {"applyCepheid", "applyEb"} -> params.lcfile
      [] method = "applyBHMicrolens" -> params.filename
      [] OTHER -> <<>>

(***************************************************************************)
(* initializeVariability (lines 18-47).                                    *)
(***************************************************************************)
Self == [variabilityLcCache |-> variabilityLcCache,
         variabilityCache   |-> variabilityCache,
         variabilityDataDir |-> variabilityDataDir]

EmptyCache == [f \in {} |-> 0]

\* the attributes after initializeVariability(doCache) has run or raised:
\* line 44 sets variabilityDataDir only when CAT_SHARE_DATA is set
InitializedSelf(doCache) ==
    [variabilityLcCache |-> EmptyCache,
     variabilityCache   |-> doCache,
     variabilityDataDir |-> IF catShareData THEN TRUE ELSE variabilityDataDir]

\* lines 43-47: os.path.join(None, ...) raises and the exception is re-raised
InitRaises == ~catShareData

\* initializeVariability that leaves the flag as it was created
FlagAfterInit_unset == FALSE

\* line 19
FlagAfterInit == TRUE

Bump(n) == IF n < 2 THEN n + 1 ELSE 2

\* the record of an operation: its arguments, whether it ran the initialization,
\* whether it invoked an evaluator, the files it read and the state the random
\* generator was in when it began
Call(op, method, params, invoked, initRan, loaded) ==
    [op |-> op, method |-> method, params |-> params, invoked |-> invoked,
     initRan |-> initRan, loaded |-> loaded, rngBefore |-> rngState]

initializeVariabilityCore(doCache) ==
    /\ variabilityInitialized' = FlagAfterInit
    /\ variabilityMethods' = Registry
    /\ variabilityLcCache' = InitializedSelf(doCache).variabilityLcCache
    /\ variabilityCache' = InitializedSelf(doCache).variabilityCache
    /\ variabilityDataDir' = InitializedSelf(doCache).variabilityDataDir
    /\ lastCall' = Call("initializeVariability", "", [doCache |-> doCache], FALSE, TRUE, {})
    /\ lastResult' = IF InitRaises THEN Raised("ConfigError") ELSE Ok(NoMags)
    /\ UNCHANGED <<catShareData, expmjd, rngState>>

\* the observers: what has happened since the engine was created or initialized
observers == <<initRuns, completedStd, completedBH, agnMemo>>

\* the observers of the folding
foldObservers == <<foldPhase, foldMemo>>

\* the state of the concurrent workers, of the photometry object and of the
\* galaxy matcher
others == <<workers, bandPassKey, bandPasses, phiArray, galCatalog, sedMatches>>

\* what an operation of the engine called by one caller leaves alone
aside == <<foldObservers, others>>

initializeVariability(doCache) ==
    /\ initializeVariabilityCore(doCache)
    /\ UNCHANGED <<observers, aside>>

(***************************************************************************)
(* applyVariability (lines 50-61).                                         *)
(***************************************************************************)
\* line 60: self.variabilityMethods[method](params)
Dispatch(method, self, params) ==
    CASE method = "applyMflare" -> applyMflare(self, params)
      [] method = "applyRRly" -> applyRRly(self, params)
      [] method = "applyCepheid" -> applyCepheid(self, params)
      [] method = "applyEb" -> applyEb(self, params)
      [] method = "applyMicrolens" -> applyMicrolens(self, params)
      [] method = "applyAgn" -> applyAgn(self, params)
      [] method = "applyMicrolensing" -> applyMicrolensing(self, params)
      [] method = "applyAmcvn" -> applyAmcvn(self, params)
      [] method = "applyBHMicrolens" -> applyBHMicrolens(self, params)

\* an evaluator whose line 248 subtracts in place, expmjd -= toff
EpochsAfterEvaluation_inplace(method, params) ==
    IF method = "applyBHMicrolens" THEN EpochsOf(params.t0) ELSE expmjd

\* what the host's epoch array holds when the evaluator returns or raises.
\* numpy.asarray (lines 66, 141, 158, 195, 211, 245) hands back the host's
\* array itself when it is a float array already; lines 70, 142, 169, 195, 213
\* and 248 derive new arrays from it, and the in-place statements (lines 83,
\* 229-234, 253) act on those or on the table read from the template file
EpochsAfterEvaluation(method, params) == expmjd

\* line 51: does this call run initializeVariability()
NeedsInit == variabilityInitialized = FALSE

\* applyVariability that swallows the failed lookup and returns nothing
applyVariabilityEffect_swallow(method, params) ==
    LET self    == IF NeedsInit THEN InitializedSelf(FALSE) ELSE Self
        methods == IF NeedsInit THEN Registry ELSE variabilityMethods
    IN  IF NeedsInit /\ InitRaises
        THEN [invoked |-> FALSE, e |-> Effect(Raised("ConfigError"), self.variabilityLcCache, {}, rngState)]
        ELSE IF method \notin methods
        THEN [invoked |-> FALSE, e |-> Effect(Ok(NoMags), self.variabilityLcCache, {}, rngState)]
        ELSE [invoked |-> TRUE, e |-> Dispatch(method, self, params)]

\* applyVariability whose lazy initialization turns the cache on
applyVariabilityEffect_lazyCache(method, params) ==
    LET self    == IF NeedsInit THEN InitializedSelf(TRUE) ELSE Self
        methods == IF NeedsInit THEN Registry ELSE variabilityMethods
    IN  IF NeedsInit /\ InitRaises
        THEN [invoked |-> FALSE, e |-> Effect(Raised("ConfigError"), self.variabilityLcCache, {}, rngState)]
        ELSE IF method \notin methods
        THEN [invoked |-> FALSE, e |-> Effect(Raised("KeyError"), self.variabilityLcCache, {}, rngState)]
        ELSE [invoked |-> TRUE, e |-> Dispatch(method, self, params)]

\* the whole call, as an effect on the attributes in force after lines 51-52
applyVariabilityEffect(method, params) ==
    LET self    == IF NeedsInit THEN InitializedSelf(FALSE) ELSE Self
        methods == IF NeedsInit THEN Registry ELSE variabilityMethods
    IN  IF NeedsInit /\ InitRaises
        THEN [invoked |-> FALSE, e |-> Effect(Raised("ConfigError"), self.variabilityLcCache, {}, rngState)]
        ELSE IF method \notin methods
        THEN [invoked |-> FALSE, e |-> Effect(Raised("KeyError"), self.variabilityLcCache, {}, rngState)]
        ELSE [invoked |-> TRUE, e |-> Dispatch(method, self, params)]

applyVariabilityCore(method, params) ==
    \E a \in {applyVariabilityEffect(method, params)} :
        /\ variabilityInitialized' = IF NeedsInit THEN FlagAfterInit ELSE variabilityInitialized
        /\ variabilityMethods' = IF NeedsInit THEN Registry ELSE variabilityMethods
        /\ variabilityCache' = IF NeedsInit THEN FALSE ELSE variabilityCache
        /\ variabilityDataDir' =
              IF NeedsInit THEN InitializedSelf(FALSE).variabilityDataDir ELSE variabilityDataDir
        /\ variabilityLcCache' = a.e.cache
        /\ rngState' = a.e.rng
        /\ lastCall' = Call("applyVariability", method, params, a.invoked, NeedsInit, a.e.loaded)
        /\ lastResult' = a.e.res
        /\ expmjd' = IF a.invoked THEN EpochsAfterEvaluation(method, params) ELSE expmjd
        /\ UNCHANGED catShareData

applyVariability(method, params) ==
    /\ applyVariabilityCore(method, params)
    /\ UNCHANGED <<observers, aside>>

\* the host supplies another observation-epoch array
SetObsMetadata(epochs) ==
    /\ expmjd' = epochs
    /\ expmjd # epochs
    /\ lastCall' = Call("setObsMetadata", "", [epochs |-> epochs], FALSE, FALSE, {})
    /\ lastResult' = NoResult
    /\ UNCHANGED <<catShareData, rngState, variabilityInitialized, variabilityMethods,
                   variabilityLcCache, variabilityCache, variabilityDataDir, observers,
                   aside>>

NoMemo == [set |-> FALSE, params |-> <<>>, expmjd |-> <<>>, res |-> NoResult, rngBefore |-> 0]

NoFold == [epoch |-> <<>>, period |-> 0, phase |-> <<>>]
NoFoldMemo ==
    [set |-> FALSE, method |-> "", params |-> <<>>, expmjd |-> <<>>, period |-> 0,
     phase |-> <<>>, res |-> NoResult, shift |-> 0]

\* the two workers that may evaluate requests on one engine at the same time
Workers == {1, 2}
IdleWorker ==
    [pc |-> "idle", method |-> "", params |-> <<>>, filename |-> <<>>, splines |-> <<>>,
     period |-> 0, written |-> <<>>, res |-> NoResult]

NoPhiArray == [built |-> FALSE, rows |-> <<>>]

\* the values of the parts a specification does not exercise: no folding
\* observed, no worker started, the class attributes of PhotometryBase
\* (lines 39-41 of Photometry.py), no catalog matched
AsideIdle ==
    /\ foldPhase = NoFold
    /\ foldMemo = NoFoldMemo
    /\ workers = [w \in Workers |-> IdleWorker]
    /\ bandPassKey = <<>>
    /\ bandPasses = <<>>
    /\ phiArray = NoPhiArray
    /\ galCatalog = <<>>
    /\ sedMatches = <<>>

Init ==
    /\ catShareData \in BOOLEAN
    /\ expmjd \in EpochArrays
    /\ rngState = 0
    /\ variabilityInitialized = FALSE
    /\ variabilityMethods = {}
    /\ variabilityLcCache = EmptyCache
    /\ variabilityCache = FALSE
    /\ variabilityDataDir = FALSE
    /\ lastCall = Call("none", "", <<>>, FALSE, FALSE, {})
    /\ lastResult = NoResult
    /\ initRuns = 0
    /\ completedStd = {}
    /\ completedBH = {}
    /\ agnMemo = NoMemo
    /\ AsideIdle

Next ==
    \/ \E doCache \in BOOLEAN : initializeVariability(doCache)
    \/ \E method \in Registry : \E params \in ParamsOf(method) : applyVariability(method, params)
    \/ \E method \in UnknownMethods : \E params \in ParamsOf(method) : applyVariability(method, params)
    \/ \E epochs \in EpochArrays : SetObsMetadata(epochs)

Spec == Init /\ [][Next]_vars

(***************************************************************************)
(* The same operations with an observer attached.                          *)
(***************************************************************************)
TemplateMethods == PeriodicMethods \cup {"applyBHMicrolens"}

\* the files a request has returned a result for, of one family of evaluators
CompletedAfter(S, methods) ==
    (IF lastCall'.initRan THEN {} ELSE S)
      \cup (IF lastCall'.method \in methods /\ lastResult'.status = "ok"
            THEN {FileOf(lastCall'.method, lastCall'.params)} \cap DiskFiles
            ELSE {})

initializeVariabilityLoads(doCache) ==
    /\ initializeVariabilityCore(doCache)
    /\ completedStd' = {}
    /\ completedBH' = {}
    /\ UNCHANGED <<initRuns, agnMemo, aside>>

applyVariabilityLoads(method, params) ==
    /\ applyVariabilityCore(method, params)
    /\ completedStd' = CompletedAfter(completedStd, PeriodicMethods)
    /\ completedBH' = CompletedAfter(completedBH, {"applyBHMicrolens"})
    /\ UNCHANGED <<initRuns, agnMemo, aside>>

NextLoads ==
    \/ \E doCache \in BOOLEAN : initializeVariabilityLoads(doCache)
    \/ \E method \in TemplateMethods : \E params \in ParamsOf(method) :
          applyVariabilityLoads(method, params)
    \/ \E epochs \in EpochArrays : SetObsMetadata(epochs)

\* every operation of the engine, with the template reads observed
SpecLoads == Init /\ [][NextLoads]_vars

applyVariabilityCounted(method, params) ==
    /\ applyVariabilityCore(method, params)
    /\ initRuns' = IF lastCall'.initRan THEN Bump(initRuns) ELSE initRuns
    /\ UNCHANGED <<completedStd, completedBH, agnMemo, aside>>

NextLazy ==
    \/ \E method \in Registry \cup UnknownMethods : \E params \in ParamsOf(method) :
          applyVariabilityCounted(method, params)
    \/ \E epochs \in EpochArrays : SetObsMetadata(epochs)

\* an engine that is driven through applyVariability alone
SpecLazy == Init /\ [][NextLazy]_vars

\* the applyAgn requests that are kept for comparison
AgnProbes == {p \in AgnParamsWide : p.t0_mjd = 401 /\ p.seed = 1}

applyAgnRemembered(params) ==
    /\ applyVariabilityCore("applyAgn", params)
    /\ agnMemo' = [set |-> TRUE, params |-> params, expmjd |-> expmjd, res |-> lastResult',
                    rngBefore |-> rngState]
    /\ UNCHANGED <<initRuns, completedStd, completedBH, aside>>

\* the generator states other users of numpy.random may have left behind
RngInitial == {0, 5}

InitAgn ==
    /\ catShareData = TRUE
    /\ expmjd \in EpochArrays
    /\ rngState \in RngInitial
    /\ variabilityInitialized = FALSE
    /\ variabilityMethods = {}
    /\ variabilityLcCache = EmptyCache
    /\ variabilityCache = FALSE
    /\ variabilityDataDir = FALSE
    /\ lastCall = Call("none", "", <<>>, FALSE, FALSE, {})
    /\ lastResult = NoResult
    /\ initRuns = 0
    /\ completedStd = {}
    /\ completedBH = {}
    /\ agnMemo = NoMemo
    /\ AsideIdle

NextAgn ==
    \/ \E params \in AgnProbes : applyAgnRemembered(params)
    \/ \E params \in AgnParamsWide : applyVariability("applyAgn", params)
    \/ \E params \in MicrolensParams : applyVariability("applyMicrolens", params)
    \/ \E epochs \in EpochArrays : SetObsMetadata(epochs)

\* applyAgn requests between other evaluations, one of them remembered
SpecAgn == InitAgn /\ [][NextAgn]_vars

(***************************************************************************)
(* Properties.                                                             *)
(***************************************************************************)
IsRequest(call) == call.op = "applyVariability"
RequestedFile(call) == FileOf(call.method, call.params)

\* C1, as stated: with caching enabled, a request for a template file that an
\* earlier request (of any evaluator) has returned for since initialization
\* reads no file and builds no interpolator.
C1_ReadAtMostOnce ==
    [][(IsRequest(lastCall') /\ variabilityCache')
         => lastCall'.loaded \cap (completedStd \cup completedBH) = {}]_vars

\* C1, amended: with caching enabled, a request of a periodic evaluator
\* (applyMflare, applyRRly, applyCepheid, applyEb) for a template file that an
\* earlier periodic request has returned for since initialization reads no file
\* and builds no interpolator; applyBHMicrolens reads its file at every call.
C1_PeriodicReadAtMostOnce ==
    [][(IsRequest(lastCall') /\ variabilityCache')
         => /\ lastCall'.method \in PeriodicMethods
                 => lastCall'.loaded \cap completedStd = {}
            /\ (lastCall'.method = "applyBHMicrolens" /\ lastResult'.status = "ok")
                 => lastCall'.loaded = {RequestedFile(lastCall')}]_vars

C1_Witness ==
    /\ variabilityCache
    /\ IsRequest(lastCall)
    /\ lastCall.method \in PeriodicMethods
    /\ lastResult.status = "ok"
    /\ RequestedFile(lastCall) \in completedStd
    /\ lastCall.loaded = {}

\* C2: with CAT_SHARE_DATA unset, initializeVariability fails and every
\* applyVariability call fails without invoking an evaluator.
C2_NoEvaluationWithoutDataRoot ==
    ~catShareData =>
        /\ lastCall.op = "initializeVariability" => lastResult.status = "error"
        /\ IsRequest(lastCall) => (lastResult.status = "error" /\ ~lastCall.invoked)

\* C3, as stated: an entry of the template cache stays, unchanged, whatever
\* operation comes next.
C3_EntriesNeverRemoved ==
    [][\A f \in DOMAIN variabilityLcCache :
           /\ f \in DOMAIN variabilityLcCache'
           /\ variabilityLcCache'[f] = variabilityLcCache[f]]_vars

\* C3, amended: an entry of the template cache stays, with the same
\* interpolators and the same period, across every applyVariability call;
\* only a further initializeVariability call empties the cache.
C3_EntriesKeptByEvaluation ==
    [][IF lastCall'.op = "initializeVariability"
       THEN DOMAIN variabilityLcCache' = {}
       ELSE \A f \in DOMAIN variabilityLcCache :
               /\ f \in DOMAIN variabilityLcCache'
               /\ variabilityLcCache'[f] = variabilityLcCache[f]]_vars

C3_Witness ==
    /\ IsRequest(lastCall)
    /\ lastResult.status = "ok"
    /\ lastCall.loaded # {}
    /\ Cardinality(DOMAIN variabilityLcCache) = 2

\* C4: with caching disabled the template cache is empty, and every
\* template-based request whose file can be read reads it and rebuilds.
C4_NoCacheAlwaysReads ==
    ~variabilityCache =>
        /\ DOMAIN variabilityLcCache = {}
        /\ (/\ IsRequest(lastCall)
            /\ lastCall.invoked
            /\ lastCall.method \in TemplateMethods
            /\ variabilityDataDir
            /\ RequestedFile(lastCall) \in DiskFiles)
             => lastCall.loaded = {RequestedFile(lastCall)}

C4_Witness ==
    /\ ~variabilityCache
    /\ IsRequest(lastCall)
    /\ ~lastCall.initRan
    /\ lastCall.method \in PeriodicMethods
    /\ lastResult.status = "ok"
    /\ lastCall.loaded = {RequestedFile(lastCall)}

\* C5, as stated: a request whose varMethodName is not registered fails with
\* the key-lookup error and invokes no evaluator.
C5_UnknownIsKeyError ==
    (IsRequest(lastCall) /\ lastCall.method \notin Registry)
        => (lastResult = Raised("KeyError") /\ ~lastCall.invoked)

\* C5, amended: a request whose varMethodName is not registered invokes no
\* evaluator and leaves the template cache unchanged; it fails with the
\* key-lookup error, unless it is the call that runs the lazy initialization
\* with CAT_SHARE_DATA unset, which fails with the initialization's error.
C5_UnknownFails ==
    [][(IsRequest(lastCall') /\ lastCall'.method \notin Registry)
         => /\ ~lastCall'.invoked
            /\ variabilityLcCache' = variabilityLcCache
            /\ lastResult' = IF lastCall'.initRan /\ ~catShareData
                             THEN Raised("ConfigError")
                             ELSE Raised("KeyError")]_vars

C5_Witness ==
    /\ IsRequest(lastCall)
    /\ lastCall.method \in UnknownMethods
    /\ lastResult = Raised("KeyError")
    /\ DOMAIN variabilityLcCache # {}

\* C6: when the engine is driven through applyVariability alone, the
\* initialization has run exactly once after any call, during the first one.
C6_InitializedOnce ==
    /\ initRuns \in {0, 1}
    /\ lastCall.op = "none" => initRuns = 0
    /\ IsRequest(lastCall) => initRuns = 1
    /\ variabilityInitialized <=> initRuns = 1

C6_Witness ==
    /\ IsRequest(lastCall)
    /\ ~lastCall.initRan
    /\ lastCall.invoked
    /\ initRuns = 1

\* C7: applyAgn raises InvalidParameters, and returns no offsets, exactly when
\* some observation epoch is less than t0_mjd.
C7_AgnEpochCheck ==
    (IsRequest(lastCall) /\ lastCall.method = "applyAgn" /\ lastCall.invoked)
        => ((\E i \in 1..Len(expmjd) : expmjd[i] < lastCall.params.t0_mjd)
              <=> lastResult = Raised("InvalidParameters"))

C7_Witness ==
    /\ IsRequest(lastCall)
    /\ lastCall.method = "applyAgn"
    /\ lastResult = Raised("InvalidParameters")
    /\ \E i, j \in 1..Len(expmjd) :
          expmjd[i] < lastCall.params.t0_mjd /\ expmjd[j] >= lastCall.params.t0_mjd

\* C8: an applyAgn evaluation with the seed, tau, t0, sfint and epochs of a
\* remembered evaluation returns what the remembered one returned, whatever
\* ran in between and whatever state the random generator was in.
C8_AgnDeterministic ==
    (/\ agnMemo.set
     /\ IsRequest(lastCall)
     /\ lastCall.method = "applyAgn"
     /\ lastCall.params = agnMemo.params
     /\ expmjd = agnMemo.expmjd)
        => lastResult = agnMemo.res

C8_Witness ==
    /\ agnMemo.set
    /\ IsRequest(lastCall)
    /\ lastCall.method = "applyAgn"
    /\ lastCall.params = agnMemo.params
    /\ expmjd = agnMemo.expmjd
    /\ lastCall.rngBefore # agnMemo.rngBefore
    /\ lastResult.status = "ok"
    /\ \E i \in 1..Len(expmjd) : lastResult.mags["u"][i] # 0

\* C9: in applyBHMicrolens an epoch strictly below the template's minimum age
\* or strictly above its maximum age (template years times 365) gets offset 0
\* in all six bands, and the evaluation of a readable template never fails.
C9_BHOutOfDomainIsNeutral ==
    (IsRequest(lastCall) /\ lastCall.method = "applyBHMicrolens" /\ lastCall.invoked)
        => LET f      == lastCall.params.filename
               minage == 365 * TemplateAxis(f)[1]
               maxage == 365 * TemplateAxis(f)[Len(TemplateAxis(f))]
               ep(i)  == expmjd[i] - lastCall.params.t0
           IN  /\ (variabilityDataDir /\ f \in DiskFiles) => lastResult.status = "ok"
               /\ lastResult.status = "ok"
                    => \A i \in 1..Len(expmjd) :
                          (ep(i) < minage \/ ep(i) > maxage)
                             => \A b \in Bands : lastResult.mags[b][i] = 0

C9_Witness ==
    /\ IsRequest(lastCall)
    /\ lastCall.method = "applyBHMicrolens"
    /\ lastResult.status = "ok"
    /\ \E i, j \in 1..Len(expmjd) :
          /\ expmjd[i] - lastCall.params.t0 < 365 * TemplateAxis(lastCall.params.filename)[1]
          /\ lastResult.mags["u"][i] = 0
          /\ lastResult.mags["u"][j] # 0

\* C10: an evaluator that returns gives exactly the six bands u, g, r, i, z, y,
\* each with one element per observation epoch.
C10_SixBandsOnePerEpoch ==
    (IsRequest(lastCall) /\ lastResult.status = "ok")
        => /\ DOMAIN lastResult.mags = Bands
           /\ \A b \in Bands : DOMAIN lastResult.mags[b] = 1..Len(expmjd)

C10_Witness ==
    /\ IsRequest(lastCall)
    /\ lastCall.method = "applyBHMicrolens"
    /\ lastResult.status = "ok"
    /\ Len(expmjd) = 1
    /\ DOMAIN lastResult.mags = Bands
    /\ Len(lastResult.mags["y"]) = 1

(***************************************************************************)
(* The folding of lines 70 and 105 on its own: the host's epochs folded    *)
(* with a zero point and a period.                                         *)
(***************************************************************************)
\* lines 70 and 105: the epochs relative to toff and their phases
FoldOf(toff, period) ==
    [epoch  |-> EpochsOf(toff),
     period |-> period,
     phase  |-> [i \in 1..Len(expmjd) |-> PhaseOf(EpochsOf(toff)[i], period)]]

\* observation dates on both sides of the zero points, and the periods folded with
PhaseMjdValues == 395..407
PhaseArrays == SeqsUpTo(PhaseMjdValues, MaxEpochs) \ {<<>>}
PhasePeriods == {1, 3, 4, 5, 7}

FoldEpochs(toff, period) ==
    /\ foldPhase' = FoldOf(toff, period)
    /\ UNCHANGED <<catShareData, expmjd, rngState, variabilityInitialized, variabilityMethods,
                   variabilityLcCache, variabilityCache, variabilityDataDir, lastCall,
                   lastResult, observers, foldMemo, others>>

InitPhase ==
    /\ catShareData = TRUE
    /\ expmjd \in PhaseArrays
    /\ rngState = 0
    /\ variabilityInitialized = FALSE
    /\ variabilityMethods = {}
    /\ variabilityLcCache = EmptyCache
    /\ variabilityCache = FALSE
    /\ variabilityDataDir = FALSE
    /\ lastCall = Call("none", "", <<>>, FALSE, FALSE, {})
    /\ lastResult = NoResult
    /\ initRuns = 0
    /\ completedStd = {}
    /\ completedBH = {}
    /\ agnMemo = NoMemo
    /\ AsideIdle

NextPhase == \E toff \in PeriodicT0s, period \in PhasePeriods : FoldEpochs(toff, period)

\* the folding applied to every epoch array and period
SpecPhase == InitPhase /\ [][NextPhase]_vars

ZeroPointOf(method, params) ==
    IF method = "applyRRly" THEN params.tStartMjd ELSE params.t0

\* lines 76-80: the period a request that reads its template folds with
RequestPeriod(method, params) ==
    CASE method = "applyMflare" -> InferPeriod(FileOf(method, params), TRUE, params.length)
      [] method = "applyCepheid" -> InferPeriod(FileOf(method, params), TRUE, params.period)
      [] OTHER -> InferPeriod(FileOf(method, params), FALSE, 0)

FoldMjdValues == {399, 401, 406}
FoldArrays == SeqsUpTo(FoldMjdValues, MaxEpochs) \ {<<>>}
FoldShifts == {-2, -1, 1, 2}

FoldParamsOf(method) ==
    CASE method = "applyMflare" -> [lcfilename : {FlareM}, t0 : PeriodicT0s, length : {4}]
      [] method = "applyRRly" -> [filename : DiskFiles, tStartMjd : PeriodicT0s]
      [] method = "applyCepheid" -> [lcfile : {FileA}, t0 : PeriodicT0s, period : {3}]
      [] method = "applyEb" -> [lcfile : {FileM}, t0 : PeriodicT0s]

\* a periodic request, its folding observed; the first one is remembered
applyVariabilityFolded(method, params) ==
    /\ applyVariabilityCore(method, params)
    /\ foldPhase' = FoldOf(ZeroPointOf(method, params), RequestPeriod(method, params))
    /\ foldMemo' =
          IF foldMemo.set THEN foldMemo
          ELSE [set |-> TRUE, method |-> method, params |-> params, expmjd |-> expmjd,
                period |-> foldPhase'.period, phase |-> foldPhase'.phase,
                res |-> lastResult', shift |-> 0]
    /\ UNCHANGED <<observers, others>>

\* the host supplies the remembered epochs moved by k periods
ShiftEpochs(k) ==
    /\ foldMemo.set
    /\ expmjd' = [i \in 1..Len(foldMemo.expmjd) |-> foldMemo.expmjd[i] + k * foldMemo.period]
    /\ expmjd' # expmjd
    /\ foldMemo' = [foldMemo EXCEPT !.shift = k]
    /\ lastCall' = Call("setObsMetadata", "", [epochs |-> expmjd'], FALSE, FALSE, {})
    /\ lastResult' = NoResult
    /\ UNCHANGED <<catShareData, rngState, variabilityInitialized, variabilityMethods,
                   variabilityLcCache, variabilityCache, variabilityDataDir, observers,
                   foldPhase, others>>

InitFold ==
    /\ catShareData = TRUE
    /\ expmjd \in FoldArrays
    /\ rngState = 0
    /\ variabilityInitialized = FALSE
    /\ variabilityMethods = {}
    /\ variabilityLcCache = EmptyCache
    /\ variabilityCache = FALSE
    /\ variabilityDataDir = FALSE
    /\ lastCall = Call("none", "", <<>>, FALSE, FALSE, {})
    /\ lastResult = NoResult
    /\ initRuns = 0
    /\ completedStd = {}
    /\ completedBH = {}
    /\ agnMemo = NoMemo
    /\ AsideIdle

NextFold ==
    \/ \E method \in PeriodicMethods : \E params \in FoldParamsOf(method) :
          applyVariabilityFolded(method, params)
    \/ \E k \in FoldShifts : ShiftEpochs(k)

SpecFold == InitFold /\ [][NextFold]_vars

C13_AmcvnBandsDiffer ==
    (/\ IsRequest(lastCall)
     /\ lastCall.method = "applyAmcvn"
     /\ lastResult.status = "ok"
     /\ lastCall.params.does_burst
     /\ SeqMin(AmcvnAdds(lastCall.params)) < 0)
        => LET p     == lastCall.params
               base  == AmcvnBase(p)
               adds  == AmcvnAdds(p)
               lc(h) == AmcvnInPlace(p, base, adds, h)
           IN  /\ lastResult.mags["z"] = lc(0)
               /\ lastResult.mags["y"] = lc(0)
               /\ lastResult.mags["i"] = lc(0)
               /\ lastResult.mags["u"] = lc(4)
               /\ lastResult.mags["g"] = lc(2)
               /\ lastResult.mags["r"] = lc(1)

\* C14: applyMflare returns, in every band and at every epoch, the negation of
\* the value at the folded phase of the piecewise-linear interpolator of the
\* template "mflare/" + lcfilename[:-5] + "1.dat", where the axis is divided by
\* and the epochs are folded with the request's length.
C14_MflareNegatedTemplate ==
    (IsRequest(lastCall) /\ lastCall.method = "applyMflare" /\ lastResult.status = "ok")
        => LET p       == lastCall.params
               f       == <<"mflare/">> \o SubSeq(p.lcfilename, 1, Len(p.lcfilename) - 1)
                            \o <<"1.dat">>
               axis    == [k \in 1..Len(TemplateAxis(f)) |-> (TemplateAxis(f)[k] * SC) \div p.length]
               lin(b)  == MakeInterp("interp1d", axis, TemplateCol(f, BandCol(b)))
               ph(i)   == PhaseOf(expmjd[i] - p.t0, p.length)
           IN  \A b \in Bands : \A i \in 1..Len(expmjd) :
                  /\ ~InterpRaises(lin(b), ph(i))
                  /\ lastResult.mags[b][i] = -InterpValue(lin(b), ph(i))

(***************************************************************************)
(* The two microlensing evaluators at observation dates on both sides of   *)
(* the event's zero point.                                                 *)
(***************************************************************************)
LensMjdValues == 397..405
LensArrays == SeqsUpTo(LensMjdValues, MaxEpochs) \ {<<>>}
LensParams == [t0 : PeriodicT0s, umin : {100, 500}, that : {10, 20}]
LensMethods == {"applyMicrolens", "applyMicrolensing"}

InitLens ==
    /\ catShareData = TRUE
    /\ expmjd \in LensArrays
    /\ rngState = 0
    /\ variabilityInitialized = FALSE
    /\ variabilityMethods = {}
    /\ variabilityLcCache = EmptyCache
    /\ variabilityCache = FALSE
    /\ variabilityDataDir = FALSE
    /\ lastCall = Call("none", "", <<>>, FALSE, FALSE, {})
    /\ lastResult = NoResult
    /\ initRuns = 0
    /\ completedStd = {}
    /\ completedBH = {}
    /\ agnMemo = NoMemo
    /\ AsideIdle

NextLens ==
    \E method \in LensMethods : \E params \in LensParams : applyVariability(method, params)

SpecLens == InitLens /\ [][NextLens]_vars

\* the offset either variant gives at the zero point itself
LensPeak(method, params) ==
    LET u2 == USquared(0, params.umin, params.that)
    IN  IF method = "applyMicrolens" THEN MagOfRatio(MicrolensMagnification(u2))
        ELSE MagOfRatio(MicrolensingMagnification(u2))

\* C15: for both microlensing variants the offsets at t0 + d and t0 - d are
\* equal, u is least, and equal to umin, at t0, and no epoch is brighter than
\* the zero point.
C15_MicrolensSymmetric ==
    (IsRequest(lastCall) /\ lastCall.method \in LensMethods /\ lastResult.status = "ok")
        => LET p     == lastCall.params
               d(i)  == expmjd[i] - p.t0
               u2(i) == USquared(d(i), p.umin, p.that)
           IN  \A i \in 1..Len(expmjd) :
                  /\ \A j \in 1..Len(expmjd) :
                        d(i) = -d(j) => \A b \in Bands :
                            lastResult.mags[b][i] = lastResult.mags[b][j]
                  /\ u2(i) * SC >= p.umin * p.umin
                  /\ d(i) = 0 => u2(i) * SC = p.umin * p.umin
                  /\ \A b \in Bands :
                        /\ lastResult.mags[b][i] >= LensPeak(lastCall.method, p)
                        /\ d(i) = 0 => lastResult.mags[b][i] = LensPeak(lastCall.method, p)

C15_Witness ==
    /\ IsRequest(lastCall)
    /\ lastCall.method = "applyMicrolensing"
    /\ lastResult.status = "ok"
    /\ expmjd = <<398, 404>>
    /\ lastResult.mags["g"][1] = lastResult.mags["g"][2]
    /\ lastResult.mags["g"][1] > LensPeak(lastCall.method, lastCall.params)

\* C16: applyEb returns, element by element in each band, -2.5*log10 of the
\* flux ratio the periodic evaluator returns for the same request (no period
\* override, axis divided by the period, spline interpolator).
C16_EbIsMagOfRatio ==
    (IsRequest(lastCall) /\ lastCall.method = "applyEb" /\ lastResult.status = "ok")
        => LET p     == lastCall.params
               ratio == applyStdPeriodic(Self, p.lcfile, p.t0, FALSE, 0, TRUE, "IUS").res
           IN  /\ ratio.status = "ok"
               /\ \A b \in Bands : \A i \in 1..Len(expmjd) :
                     lastResult.mags[b][i] = MagOfRatio(ratio.mags[b][i])

C16_Witness ==
    /\ IsRequest(lastCall)
    /\ lastCall.method = "applyEb"
    /\ lastCall.params.lcfile = FileA
    /\ lastResult.status = "ok"
    /\ expmjd = <<1502, 401>>
    /\ lastResult.mags["u"] = <<MagOfRatio(1200), MagOfRatio(1050)>>
    /\ lastResult.mags["u"][1] < lastResult.mags["u"][2]
    /\ lastResult.mags["u"][2] < 0

PeriodicArgs(method, params) ==
    [filename  |-> FileOf(method, params),
     toff      |-> ZeroPointOf(method, params),
     hasPeriod |-> method \in {"applyMflare", "applyCepheid"},
     inPeriod  |-> CASE method = "applyMflare" -> params.length
                     [] method = "applyCepheid" -> params.period
                     [] OTHER -> 0,
     inDays    |-> method # "applyCepheid",
     factory   |-> IF method = "applyMflare" THEN "interp1d" ELSE "IUS"]

RaceMethods == {"applyRRly", "applyCepheid"}
RaceParamsOf(method) ==
    IF method = "applyRRly" THEN [filename : {FileA}, tStartMjd : PeriodicT0s]
    ELSE [lcfile : {FileA}, t0 : PeriodicT0s, period : {3, 4}]
RaceArrays == {s \in EpochArrays : Len(s) = 1}

EngineFrame == <<catShareData, expmjd, rngState, lastCall, lastResult, observers,
                 foldObservers, bandPassKey, bandPasses, phiArray, galCatalog, sedMatches>>

\* lines 50-60 and 63-70: the worker enters applyVariability, runs the lazy
\* initialization if the flag is unset, and reaches the lookup of line 71
BeginRequest(w, method, params) ==
    /\ workers[w].pc = "idle"
    /\ variabilityInitialized' = IF NeedsInit THEN FlagAfterInit ELSE variabilityInitialized
    /\ variabilityMethods' = IF NeedsInit THEN Registry ELSE variabilityMethods
    /\ variabilityCache' = IF NeedsInit THEN FALSE ELSE variabilityCache
    /\ variabilityDataDir' =
          IF NeedsInit THEN InitializedSelf(FALSE).variabilityDataDir ELSE variabilityDataDir
    /\ variabilityLcCache' = IF NeedsInit THEN EmptyCache ELSE variabilityLcCache
    /\ workers' = [workers EXCEPT ![w] =
          [IdleWorker EXCEPT !.pc = "has_key", !.method = method, !.params = params,
                             !.filename = PeriodicArgs(method, params).filename]]
    /\ UNCHANGED EngineFrame

\* lines 71-73
CheckCache(w) ==
    /\ workers[w].pc = "has_key"
    /\ workers' = [workers EXCEPT ![w] =
          IF CacheHit(Self, workers[w].filename)
          THEN [@ EXCEPT !.pc = "fold",
                         !.splines = variabilityLcCache[workers[w].filename].splines,
                         !.period = variabilityLcCache[workers[w].filename].period]
          ELSE [@ EXCEPT !.pc = "load"]]
    /\ UNCHANGED <<variabilityInitialized, variabilityMethods, variabilityCache,
                   variabilityDataDir, variabilityLcCache, EngineFrame>>

\* lines 75-92 and 96-101
LoadTemplate(w) ==
    /\ workers[w].pc = "load"
    /\ LET a      == PeriodicArgs(workers[w].method, workers[w].params)
           period == InferPeriod(a.filename, a.hasPeriod, a.inPeriod)
       IN  workers' = [workers EXCEPT ![w] =
              [@ EXCEPT !.pc = "store", !.period = period,
                        !.splines = BuildSplines(a.filename, period, a.inDays, a.factory)]]
    /\ UNCHANGED <<variabilityInitialized, variabilityMethods, variabilityCache,
                   variabilityDataDir, variabilityLcCache, EngineFrame>>

\* lines 93-94 and 102-103
StoreEntry(w) ==
    /\ workers[w].pc = "store"
    /\ variabilityLcCache' = StoreInCache(Self, variabilityLcCache, workers[w].filename,
                                          workers[w].splines, workers[w].period)
    /\ workers' = [workers EXCEPT ![w] =
          [@ EXCEPT !.pc = "fold",
                    !.written = IF variabilityCache
                                THEN [splines |-> workers[w].splines, period |-> workers[w].period]
                                ELSE <<>>]]
    /\ UNCHANGED <<variabilityInitialized, variabilityMethods, variabilityCache,
                   variabilityDataDir, EngineFrame>>

\* lines 105-109
FoldEvaluate(w) ==
    /\ workers[w].pc = "fold"
    /\ workers' = [workers EXCEPT ![w] =
          [@ EXCEPT !.pc = "done",
                    !.res = FoldAndEvaluate(workers[w].splines, workers[w].period,
                               PeriodicArgs(workers[w].method, workers[w].params).toff)]]
    /\ UNCHANGED <<variabilityInitialized, variabilityMethods, variabilityCache,
                   variabilityDataDir, variabilityLcCache, EngineFrame>>

\* the host initializes the engine before it hands out the requests
initializeVariabilityShared(doCache) ==
    /\ \A w \in Workers : workers[w].pc = "idle"
    /\ initializeVariability(doCache)

InitRace ==
    /\ catShareData = TRUE
    /\ expmjd \in RaceArrays
    /\ rngState = 0
    /\ variabilityInitialized = FALSE
    /\ variabilityMethods = {}
    /\ variabilityLcCache = EmptyCache
    /\ variabilityCache = FALSE
    /\ variabilityDataDir = FALSE
    /\ lastCall = Call("none", "", <<>>, FALSE, FALSE, {})
    /\ lastResult = NoResult
    /\ initRuns = 0
    /\ completedStd = {}
    /\ completedBH = {}
    /\ agnMemo = NoMemo
    /\ AsideIdle

NextRace ==
    \/ \E doCache \in BOOLEAN : initializeVariabilityShared(doCache)
    \/ \E w \in Workers : \E method \in RaceMethods : \E params \in RaceParamsOf(method) :
          BeginRequest(w, method, params)
    \/ \E w \in Workers : CheckCache(w)
    \/ \E w \in Workers : LoadTemplate(w)
    \/ \E w \in Workers : StoreEntry(w)
    \/ \E w \in Workers : FoldEvaluate(w)

SpecRace == InitRace /\ [][NextRace]_vars

\* C18: when two workers both evaluate requests for one template file that is
\* not cached yet, with caching enabled, the entries they write are equal, and
\* the entry the cache holds in the end is the one either of them wrote.
C18_RaceWritesEqual ==
    \A w1, w2 \in Workers :
        (/\ workers[w1].pc = "done"
         /\ workers[w2].pc = "done"
         /\ workers[w1].written # <<>>
         /\ workers[w2].written # <<>>
         /\ workers[w1].filename = workers[w2].filename)
            => /\ workers[w1].written = workers[w2].written
               /\ variabilityLcCache[workers[w1].filename] = workers[w1].written

(***************************************************************************)
(* PhotometryBase.loadBandPasses (src/python/lsst/sims/photUtils/          *)
(* Photometry.py, lines 62-92).  A bandpass is held as the file it was     *)
(* read from, the pair <<bandPassRoot, name>>.                             *)
(***************************************************************************)
engineVars == <<catShareData, expmjd, rngState, variabilityInitialized, variabilityMethods,
                variabilityLcCache, variabilityCache, variabilityDataDir>>

BandNames == {"u", "g", "r"}
BandRoots == {"total_", "sdss_"}
BandLists == SeqsUpTo(BandNames, 2)

\* the throughput files under $LSST_THROUGHPUTS_DEFAULT
ThroughputFiles == (BandRoots \X BandNames) \ {<<"sdss_", "r">>}

\* a Bandpass() whose readThroughput has not succeeded (line 89)
EmptyBandpass == <<"", "">>

\* lines 78-79
RootOrDefault(bandPassRoot) == IF bandPassRoot = "None" THEN "total_" ELSE bandPassRoot

\* line 81: is the load skipped
LoadSkipped(bandPassList) == bandPassKey = bandPassList

\* lines 88-90: the names of the list up to and including the first whose file
\* cannot be read
RECURSIVE ReadUpTo(_, _)
ReadUpTo(names, root) ==
    IF names = <<>> THEN <<>>
    ELSE IF <<root, Head(names)>> \notin ThroughputFiles THEN <<Head(names)>>
    ELSE <<Head(names)>> \o ReadUpTo(Tail(names), root)

SeqRange(s) == {s[i] : i \in 1..Len(s)}

\* lines 55-60: the bandpasses in the order of bandPassKey
PhiRows(key, passes) == [i \in 1..Len(key) |-> passes[key[i]]]

loadBandPasses(bandPassList, bandPassRoot) ==
    LET root    == RootOrDefault(bandPassRoot)
        tried   == ReadUpTo(bandPassList, root)
        failed  == \E w \in SeqRange(bandPassList) : <<root, w>> \notin ThroughputFiles
        passes  == [w \in SeqRange(tried) |->
                      IF <<root, w>> \in ThroughputFiles THEN <<root, w>> ELSE EmptyBandpass]
    IN  /\ IF LoadSkipped(bandPassList)
           THEN /\ UNCHANGED <<bandPassKey, bandPasses, phiArray>>
                /\ lastResult' = Ok(NoMags)
                /\ lastCall' = Call("loadBandPasses", "",
                                    [bandPassList |-> bandPassList, bandPassRoot |-> root],
                                    FALSE, FALSE, {})
           ELSE /\ bandPassKey' = bandPassList
                /\ bandPasses' = passes
                /\ phiArray' = IF failed THEN phiArray
                               ELSE [built |-> TRUE, rows |-> PhiRows(bandPassList, passes)]
                /\ lastResult' = IF failed THEN Raised("IOError") ELSE Ok(NoMags)
                /\ lastCall' = Call("loadBandPasses", "",
                                    [bandPassList |-> bandPassList, bandPassRoot |-> root],
                                    FALSE, FALSE,
                                    {<<root, w>> : w \in SeqRange(tried)} \cap ThroughputFiles)
        /\ UNCHANGED <<engineVars, observers, foldObservers, workers, galCatalog, sedMatches>>

InitPhot ==
    /\ catShareData = TRUE
    /\ expmjd \in RaceArrays
    /\ rngState = 0
    /\ variabilityInitialized = FALSE
    /\ variabilityMethods = {}
    /\ variabilityLcCache = EmptyCache
    /\ variabilityCache = FALSE
    /\ variabilityDataDir = FALSE
    /\ lastCall = Call("none", "", <<>>, FALSE, FALSE, {})
    /\ lastResult = NoResult
    /\ initRuns = 0
    /\ completedStd = {}
    /\ completedBH = {}
    /\ agnMemo = NoMemo
    /\ AsideIdle

NextPhot ==
    \E bandPassList \in BandLists : \E bandPassRoot \in BandRoots \cup {"None"} :
        loadBandPasses(bandPassList, bandPassRoot)

SpecPhot == InitPhot /\ [][NextPhot]_vars

\* C19: after a loadBandPasses call that returned, bandPasses holds exactly
\* the names of the list just requested, each read from the file named by the
\* root just requested plus the name, and phiArray holds them in the order of
\* bandPassKey.
C19_BandPassesAreTheRequested ==
    (lastCall.op = "loadBandPasses" /\ lastResult.status = "ok")
        => LET list == lastCall.params.bandPassList
               root == lastCall.params.bandPassRoot
           IN  /\ bandPassKey = list
               /\ DOMAIN bandPasses = SeqRange(list)
               /\ \A w \in SeqRange(list) : bandPasses[w] = <<root, w>>
               /\ list # <<>> => phiArray.rows = [i \in 1..Len(list) |-> <<root, list[i]>>]

\* ---------------------------------------------------------------------------
\* Part 17: selectGalaxySED, matching catalog galaxies to model SEDs.
\* Magnitudes are in tenths of a magnitude.  A catalog redshift is in halves of
\* the grid step dz = 10^-dzAcc; a grid redshift is in whole steps.
\* ---------------------------------------------------------------------------

\* the bandpasses the caller passes as bandpassList
GalFilters == <<"g", "r", "i">>

\* the names of the model spectra in sedList, in list order
sedList == <<"Exp.spec", "Burst.spec">>

\* the leading default extinction coefficients, one per filter
extCoeffs == <<42, 33, 23>>

\* the grid redshifts the catalogs below can reach
GridValues == (0 - 1)..3

\* what manyMagCalc_list returns for spectrum s redshifted to grid redshift g
SedMagsOf(k) ==
    [s \in 1..Len(sedList) |->
        [g \in GridValues |-> IF s = 1 THEN <<20 + g, 10, 0>> ELSE <<0, 13 + k, 0>>]]

SedMagTables == {SedMagsOf(k) : k \in {0}}

\* one catalog object: catRedshifts[i], catMags[i] and the E(B-V) that
\* calculateEbv returns for (catRA[i], catDec[i])
CatMagRows == {<<0, 10, 0>>, <<30, 10, 0>>, <<0, 13, 0>>}
CatObjects == [redshift : {0, 1, 3}, mags : CatMagRows, ebv : {0, 1}]
Catalogs == SeqsUpTo(CatObjects, 2)

\* np.round(z, dzAcc): to the nearest grid step, a half going to the even one
RoundToGrid(z) ==
    LET k == z \div 2
    IN  IF z % 2 = 0 THEN k ELSE IF k % 2 = 0 THEN k ELSE k + 1

\* np.round(np.arange(minRedshift - dz, maxRedshift + 2*dz, dz), dzAcc)
redshiftRange(cat) ==
    LET zs == [i \in 1..Len(cat) |-> cat[i].redshift]
        minRedshift == RoundToGrid(SeqMin(zs))
        maxRedshift == RoundToGrid(SeqMax(zs))
    IN  [n \in 1..(maxRedshift - minRedshift + 3) |-> minRedshift - 2 + n]

\* np.argsort(catRedshifts)
RECURSIVE ArgSortFrom(_, _)
ArgSortFrom(cat, left) ==
    IF left = {} THEN <<>>
    ELSE LET i == CHOOSE a \in left : \A b \in left :
                      \/ cat[a].redshift < cat[b].redshift
                      \/ cat[a].redshift = cat[b].redshift /\ a <= b
         IN  <<i>> \o ArgSortFrom(cat, left \ {i})

redshiftIndex(cat) == ArgSortFrom(cat, 1..Len(cat))

\* the colors of adjacent filters
ColorsOf(mags) == [f \in 1..(Len(mags) - 1) |-> mags[f] - mags[f + 1]]

\* colorSet at one grid redshift, one row of colors per spectrum
ColorSetAt(sedMags, redshift) ==
    [s \in 1..Len(sedList) |-> ColorsOf(sedMags[s][redshift])]

\* the extinction correction of one object's magnitudes
DeExtinct(mags, ebv) == [f \in 1..Len(GalFilters) |-> mags[f] - extCoeffs[f] * ebv]

\* np.nanargmin: the first position holding the least value
NanArgMin(d) ==
    CHOOSE s \in 1..Len(d) :
        /\ \A t \in 1..Len(d) : d[s] <= d[t]
        /\ \A t \in 1..(s - 1) : d[t] > d[s]

\* the color loop of matchToRestFrame: every color adds its squared difference
RECURSIVE RestDistance(_, _, _, _)
RestDistance(colorSet, matchColors, filtNum, distanceArray) ==
    IF filtNum > Len(matchColors) THEN distanceArray
    ELSE RestDistance(colorSet, matchColors, filtNum + 1,
             [s \in 1..Len(sedList) |->
                 distanceArray[s]
                   + (colorSet[s][filtNum] - matchColors[filtNum])
                       * (colorSet[s][filtNum] - matchColors[filtNum])])

\* the color loop of matchToObserved: every color assigns its squared difference
RECURSIVE ObservedDistance(_, _, _, _)
ObservedDistance(colorSet, matchColors, filtNum, distanceArray) ==
    IF filtNum > Len(matchColors) THEN distanceArray
    ELSE ObservedDistance(colorSet, matchColors, filtNum + 1,
             [s \in 1..Len(sedList) |->
                 (colorSet[s][filtNum] - matchColors[filtNum])
                   * (colorSet[s][filtNum] - matchColors[filtNum])])

ZeroDistance == [s \in 1..Len(sedList) |-> 0]

\* the loop over redshiftIndex[numOn:] at one grid redshift; st holds numOn,
\* the catalog with the magnitudes corrected so far, and sedMatches
RECURSIVE MatchAtRedshift(_, _, _, _, _, _)
MatchAtRedshift(order, sedMags, extinction, lastRedshift, redshift, st) ==
    IF st.numOn >= Len(order) THEN st
    ELSE LET currentIndex == order[st.numOn + 1]
             obj == st.cat[currentIndex]
             z == RoundToGrid(obj.redshift)
         IN  IF lastRedshift < z /\ z <= redshift
             THEN LET matchMags == IF extinction THEN DeExtinct(obj.mags, obj.ebv)
                                   ELSE obj.mags
                      distanceArray == ObservedDistance(ColorSetAt(sedMags, redshift),
                                                        ColorsOf(matchMags), 1, ZeroDistance)
                  IN  MatchAtRedshift(order, sedMags, extinction, lastRedshift, redshift,
                          [numOn |-> st.numOn + 1,
                           cat |-> [st.cat EXCEPT ![currentIndex].mags = matchMags],
                           matches |-> [st.matches EXCEPT
                                          ![currentIndex] = sedList[NanArgMin(distanceArray)]]])
             ELSE st

\* the loop over redshiftRange
RECURSIVE MatchOverGrid(_, _, _, _, _, _, _)
MatchOverGrid(grid, n, order, sedMags, extinction, lastRedshift, st) ==
    IF n > Len(grid) THEN st
    ELSE MatchOverGrid(grid, n + 1, order, sedMags, extinction, grid[n],
             MatchAtRedshift(order, sedMags, extinction, lastRedshift, grid[n], st))

\* what matchToRestFrame returns for the catalog
RestFrameMatches(cat, sedMags) ==
    [i \in 1..Len(cat) |->
        sedList[NanArgMin(RestDistance(ColorSetAt(sedMags, 0), ColorsOf(cat[i].mags),
                                       1, ZeroDistance))]]

GalFrame == <<engineVars, observers, foldObservers, workers, bandPassKey, bandPasses, phiArray>>

matchToObserved(cat, sedMags, extinction) ==
    /\ lastCall' = Call("matchToObserved", "",
                        [catalog |-> cat, sedMags |-> sedMags, extinction |-> extinction],
                        FALSE, FALSE, {})
    /\ IF cat = <<>>
       THEN /\ lastResult' = Raised("ValueError")
            /\ galCatalog' = cat
            /\ sedMatches' = <<>>
       ELSE \E st \in {MatchOverGrid(redshiftRange(cat), 1, redshiftIndex(cat), sedMags,
                                     extinction, 0 - 100,
                                     [numOn |-> 0, cat |-> cat,
                                      matches |-> [i \in 1..Len(cat) |-> "None"]])} :
                /\ galCatalog' = st.cat
                /\ sedMatches' = st.matches
                /\ lastResult' = Ok(NoMags)
    /\ UNCHANGED GalFrame

matchToRestFrame(cat, sedMags) ==
    /\ lastCall' = Call("matchToRestFrame", "",
                        [catalog |-> cat, sedMags |-> sedMags, extinction |-> FALSE],
                        FALSE, FALSE, {})
    /\ IF cat = <<>>
       THEN /\ lastResult' = Raised("IndexError")
            /\ galCatalog' = cat
            /\ sedMatches' = <<>>
       ELSE /\ galCatalog' = cat
            /\ sedMatches' = RestFrameMatches(cat, sedMags)
            /\ lastResult' = Ok(NoMags)
    /\ UNCHANGED GalFrame

InitMatch ==
    /\ catShareData = TRUE
    /\ expmjd = <<>>
    /\ rngState = 0
    /\ variabilityInitialized = FALSE
    /\ variabilityMethods = {}
    /\ variabilityLcCache = EmptyCache
    /\ variabilityCache = FALSE
    /\ variabilityDataDir = FALSE
    /\ lastCall = Call("none", "", <<>>, FALSE, FALSE, {})
    /\ lastResult = NoResult
    /\ initRuns = 0
    /\ completedStd = {}
    /\ completedBH = {}
    /\ agnMemo = NoMemo
    /\ AsideIdle

NextMatch ==
    \E cat \in Catalogs : \E sedMags \in SedMagTables :
        \/ \E extinction \in BOOLEAN : matchToObserved(cat, sedMags, extinction)
        \/ matchToRestFrame(cat, sedMags)

SpecMatch == InitMatch /\ [][NextMatch]_vars

\* C20: after matchToObserved returned, every catalog object is given the
\* name of a model spectrum that, at the object's grid redshift, has the least
\* sum over all adjacent-filter colors of the squared difference to the
\* object's (extinction corrected) colors: the criterion of matchToRestFrame.
C20_ClosestOverAllColors ==
    (lastCall.op = "matchToObserved" /\ lastResult.status = "ok")
        => LET p == lastCall.params
           IN  \A i \in 1..Len(p.catalog) :
                   LET obj == p.catalog[i]
                       mags == IF p.extinction THEN DeExtinct(obj.mags, obj.ebv) ELSE obj.mags
                       d == RestDistance(ColorSetAt(p.sedMags, RoundToGrid(obj.redshift)),
                                         ColorsOf(mags), 1, ZeroDistance)
                   IN  \E s \in 1..Len(sedList) :
                           /\ sedMatches[i] = sedList[s]
                           /\ \A t \in 1..Len(sedList) : d[s] <= d[t]

\* C21: a periodic request without a period override (applyRRly, applyEb) that
\* reads its template stores, with caching enabled, the period
\* (last sample time - first sample time) + (second - first sample time),
\* also for a template whose first sample time is not zero.
C21_PeriodIsSpanPlusSpacing ==
    (/\ IsRequest(lastCall)
     /\ lastCall.method \in {"applyRRly", "applyEb"}
     /\ lastCall.loaded # {}
     /\ variabilityCache)
        => LET f  == RequestedFile(lastCall)
               ax == TemplateAxis(f)
           IN  /\ f \in DOMAIN variabilityLcCache
               /\ variabilityLcCache[f].period = (ax[Len(ax)] - ax[1]) + (ax[2] - ax[1])

\* C22: the burst pulses of an applyAmcvn evaluation with bursting start at
\* t0 + k*burst_freq for k = 1, 2, ..., so that consecutive onsets are exactly
\* burst_freq apart.
C22_PulsesBurstFreqApart ==
    (/\ IsRequest(lastCall)
     /\ lastCall.method = "applyAmcvn"
     /\ lastResult.status = "ok"
     /\ lastCall.params.does_burst)
        => LET p == lastCall.params
               D == AmcvnScale(p.burst_freq)
           IN  \A j \in 0..(AmcvnPulses(p.burst_freq) - 1) :
                  /\ AmcvnOnset(p, j) = D * (p.t0 + (j + 1) * p.burst_freq)
                  /\ j > 0 => AmcvnOnset(p, j) - AmcvnOnset(p, j - 1) = D * p.burst_freq

\* C23: with caching enabled, a periodic request for a file that is cached
\* with interpolators of another kind than the request's own raises no error,
\* is answered by the cached interpolators, and leaves the file's cache entry
\* as it was.
C23_OtherKindServedFromCache ==
    [][(/\ IsRequest(lastCall')
        /\ lastCall'.invoked
        /\ lastCall'.method \in PeriodicMethods
        /\ variabilityCache
        /\ ~lastCall'.initRan
        /\ RequestedFile(lastCall') \in DOMAIN variabilityLcCache
        /\ variabilityLcCache[RequestedFile(lastCall')].splines.kind
             # (IF lastCall'.method = "applyMflare" THEN "interp1d" ELSE "IUS"))
         => LET m     == lastCall'.method
                f     == RequestedFile(lastCall')
                entry == variabilityLcCache[f]
                raw   == FoldAndEvaluate(entry.splines, entry.period,
                                         ZeroPointOf(m, lastCall'.params))
                conv(v) == IF m = "applyMflare" THEN -v
                           ELSE IF m = "applyEb" THEN MagOfRatio(v) ELSE v
            IN  /\ lastResult'.status = "ok"
                /\ raw.status = "ok"
                /\ \A b \in Bands : \A i \in 1..Len(expmjd) :
                      lastResult'.mags[b][i] = conv(raw.mags[b][i])
                /\ lastCall'.loaded = {}
                /\ f \in DOMAIN variabilityLcCache'
                /\ variabilityLcCache'[f] = entry]_vars

\* C24: a template-based request whose file is not under the data directory
\* fails with the I/O error of the read, reads nothing, and leaves the
\* template cache as it was before the call, without an entry for the file:
\* the next request for the file attempts the read again.
C24_MissingFileIsIOError ==
    [][(/\ IsRequest(lastCall')
        /\ lastCall'.invoked
        /\ lastCall'.method \in TemplateMethods
        /\ variabilityDataDir'
        /\ RequestedFile(lastCall') \notin DiskFiles)
         => /\ lastResult' = Raised("IOError")
            /\ lastCall'.loaded = {}
            /\ variabilityLcCache' = variabilityLcCache
            /\ RequestedFile(lastCall') \notin DOMAIN variabilityLcCache']_vars

C24_Witness ==
    /\ IsRequest(lastCall)
    /\ lastCall.method = "applyMflare"
    /\ RequestedFile(lastCall) \notin DiskFiles
    /\ lastResult = Raised("IOError")
    /\ variabilityCache
    /\ Cardinality(DOMAIN variabilityLcCache) = 2

\* C25: applyAgn draws its deviates once and every band walks with them: the
\* output of a band is sfint[band] times one common walk that starts at 0 (up
\* to the rounding of the fixed-point steps), so that bands with equal sfint
\* get equal output and a band with sfint 0 gets zeros throughout.
C25_AgnBandsShareNoise ==
    (IsRequest(lastCall) /\ lastCall.method = "applyAgn" /\ lastResult.status = "ok")
        => LET p      == lastCall.params
               epochs == [i \in 1..Len(expmjd) |-> expmjd[i] - p.t0_mjd]
               nbins  == AgnBins(SeqMax(epochs), p.agn_tau)
               m      == lastResult.mags
               slack  == 2 * nbins + 1
               dist(a, b) == IF a < b THEN b - a ELSE a - b
           IN  /\ \A b1, b2 \in Bands : p.sfint[b1] = p.sfint[b2] => m[b1] = m[b2]
               /\ \A b \in Bands : p.sfint[b] = 0 => \A i \in 1..Len(expmjd) : m[b][i] = 0
               /\ \A b \in Bands : \A i \in 1..Len(expmjd) : epochs[i] = 0 => m[b][i] = 0
               /\ \A b1, b2 \in Bands : \A i \in 1..Len(expmjd) :
                     dist(p.sfint[b2] * m[b1][i], p.sfint[b1] * m[b2][i])
                        <= (p.sfint[b1] + p.sfint[b2]) * slack

C25_Witness ==
    /\ IsRequest(lastCall)
    /\ lastCall.method = "applyAgn"
    /\ lastResult.status = "ok"
    /\ Len(expmjd) = 2
    /\ expmjd[1] = lastCall.params.t0_mjd
    /\ lastResult.mags["u"][2] = lastResult.mags["g"][2]
    /\ lastResult.mags["u"][2] > 100
    /\ lastResult.mags["r"][2] > 0
    /\ lastResult.mags["r"][2] < lastResult.mags["u"][2]
    /\ lastResult.mags["z"][2] = 0

\* C26: with caching enabled, a request of a periodic evaluator (applyMflare,
\* applyRRly, applyCepheid, applyEb) gets the result the same request gets from
\* an engine with caching disabled, whatever requests came before it.
C26_CacheIsTransparent ==
    (/\ IsRequest(lastCall)
     /\ lastCall.invoked
     /\ lastCall.method \in PeriodicMethods
     /\ variabilityCache)
        => lastResult = Dispatch(lastCall.method,
                                 [variabilityLcCache |-> EmptyCache,
                                  variabilityCache   |-> FALSE,
                                  variabilityDataDir |-> variabilityDataDir],
                                 lastCall.params).res

\* C27: an engine that is initialized only by its first applyVariability call
\* has caching disabled: after any sequence of evaluations the template cache
\* is empty, and every template-based request whose file can be read has read it.
C27_LazyInitDoesNotCache ==
    /\ ~variabilityCache
    /\ variabilityLcCache = EmptyCache
    /\ (/\ IsRequest(lastCall)
        /\ lastCall.method \in TemplateMethods
        /\ variabilityDataDir
        /\ RequestedFile(lastCall) \in DiskFiles)
         => (lastCall.invoked /\ lastCall.loaded = {RequestedFile(lastCall)})

C27_Witness ==
    /\ IsRequest(lastCall)
    /\ ~lastCall.initRan
    /\ initRuns = 1
    /\ lastCall.method = "applyRRly"
    /\ lastResult.status = "ok"
    /\ lastCall.loaded = {FileA}
    /\ variabilityLcCache = EmptyCache

\* C28: applyAgn at epochs that are all at or after t0_mjd, with tau > 0,
\* builds a grid of at least one step and returns six arrays, one element per
\* epoch, also when every epoch equals t0_mjd.
C28_AgnGridHasAStep ==
    (/\ IsRequest(lastCall)
     /\ lastCall.method = "applyAgn"
     /\ lastCall.invoked
     /\ lastCall.params.agn_tau > 0
     /\ \A i \in 1..Len(expmjd) : expmjd[i] >= lastCall.params.t0_mjd)
        => LET p == lastCall.params
               endepoch == SeqMax([i \in 1..Len(expmjd) |-> expmjd[i] - p.t0_mjd])
           IN  /\ AgnBins(endepoch, p.agn_tau) >= 1
               /\ lastResult.status = "ok"
               /\ DOMAIN lastResult.mags = Bands
               /\ \A b \in Bands : Len(lastResult.mags[b]) = Len(expmjd)

\* C29: with bursting enabled, when no burst pulse contributes at any of the
\* epochs (the accumulated burst term is zero everywhere), applyAmcvn returns
\* the baseline sinusoid amplitude*cos((epoch - t0)/period) in every band.
C29_AmcvnQuietIsBaseline ==
    (/\ IsRequest(lastCall)
     /\ lastCall.method = "applyAmcvn"
     /\ lastCall.invoked
     /\ lastCall.params.does_burst
     /\ \A i \in 1..Len(expmjd) : AmcvnAdds(lastCall.params)[i] = 0)
        => /\ lastResult.status = "ok"
           /\ \A b \in Bands : \A i \in 1..Len(expmjd) :
                 /\ lastResult.mags[b][i] # NaN
                 /\ lastResult.mags[b][i] = AmcvnBase(lastCall.params)[i]

\* C30: an applyMflare request that reads its template, whatever the epochs
\* and the positive event length, folds to phases that all lie between the
\* first and the last knot of its piecewise-linear interpolators (the template
\* axis divided by the length), and so does not fail with ValueError.
C30_FlarePhaseInRange ==
    (/\ IsRequest(lastCall)
     /\ lastCall.method = "applyMflare"
     /\ lastCall.invoked
     /\ lastCall.loaded # {}
     /\ lastCall.params.length > 0)
        => LET p    == lastCall.params
               ax   == BuildAxis(RequestedFile(lastCall), p.length, TRUE)
           IN  /\ \A i \in 1..Len(expmjd) :
                     LET ph == PhaseOf(expmjd[i] - p.t0, p.length)
                     IN  ax[1] <= ph /\ ph <= ax[Len(ax)]
               /\ lastResult.status = "ok"

====
